---- MODULE Spec2Model ----
(***************************************************************************)
(* Model of backend/src/services/llm.ts (chat adapter, session store) and  *)
(* backend/src/services/ai-config.ts (configuration cache).                *)
(*                                                                         *)
(* Texts are sequences of tokens; the token " " is whitespace.  A message  *)
(* field `attachments` that is undefined in the program is <<>> here (the  *)
(* program never stores an empty list: llm.ts:223, llm.ts:328).            *)
(* Optional values are sequences of length 0 (absent) or 1 (present).      *)
(* Temperatures are in tenths (0.2 is 2).  Of the clock, the model keeps   *)
(* what the program derives ids, createdAt and updatedAt from; a message's *)
(* `timestamp` string is left out.  The clock matters where it is read:    *)
(* `now` is the last value read, and every step that reads the clock reads *)
(* a value that is not earlier (Clock); the reads of one synchronous step  *)
(* return one value.                                                       *)
(***************************************************************************)
EXTENDS Integers, Sequences, FiniteSets, TLC

\* ------------------------------------------------------------------ bounds
MaxTime == 1          \* the clock reads 0..MaxTime
MaxCalls == 2         \* calls of sendMessage / sendMessageStream ever started
MaxChunks == 2        \* chunks the provider's streams deliver in a run
MaxCreates == 2       \* explicit createChatSession calls
MaxAttachments == 2   \* attachments of one message
MaxUpdates == 1       \* updateAiConfig calls ever started

\* Two client tasks issue calls; each awaits its call before its next one.
Clients == {"t1", "t2"}
Containers == {"c1", "c2"}
Providers == {"openai", "openrouter", "anthropic", "google-gemini"}

Fallback == <<"Sorry, I could not generate a response.">>
DefaultModel == <<"gpt-4o-mini">>
DefaultTemperature == 2
MaxTemperature == 20

VARIABLES
  now,            \* Date.now(): the value the clock was last read at
  heap,           \* the ChatSession objects ever allocated, by reference
  chatSessions,   \* the Map sessionId -> ChatSession, in insertion order
  cachedConfig,   \* ai-config's cachedConfig: <<>> is null
  configFile,     \* config/ai.json on disk
  calls,          \* per client: the call it runs (locals, position, log)
  started,        \* number of calls started so far
  created,        \* number of createChatSession calls so far
  delivered,      \* number of stream chunks delivered so far
  updates,        \* number of updateAiConfig calls started so far
  lastUpdate,     \* what the last updateAiConfig that returned has returned
  storeLog,       \* the calls made to the session store's functions, in order
  norm            \* an input of the content normalizers and their outputs

vars ==
  <<now, heap, chatSessions, cachedConfig, configFile, calls, started, created, delivered,
    updates, lastUpdate, storeLog, norm>>

\* what the chat calls leave alone
otherVars == <<created, updates, lastUpdate, storeLog, norm>>

\* ------------------------------------------------------------------ texts
RECURSIVE TrimLeft(_)
TrimLeft(s) == IF s # <<>> /\ Head(s) = " " THEN TrimLeft(Tail(s)) ELSE s

RECURSIVE TrimRight(_)
TrimRight(s) ==
  IF s # <<>> /\ s[Len(s)] = " " THEN TrimRight(SubSeq(s, 1, Len(s) - 1)) ELSE s

\* String.prototype.trim
Trim(s) == TrimRight(TrimLeft(s))

RECURSIVE Join(_)
\* Array.prototype.join("") of a list of texts
Join(ts) == IF ts = <<>> THEN <<>> ELSE Head(ts) \o Join(Tail(ts))

\* ----------------------------------------------------------- configuration
RawConfig(p, k, m, t) == [provider |-> p, apiKey |-> k, model |-> m, temperature |-> t]

\* Number(raw.temperature): a numeric value, or NaN
NumberOf(v) == IF v.numeric THEN [nan |-> FALSE, v |-> v.v] ELSE [nan |-> TRUE, v |-> 0]

normalizeConfig(raw) ==
  [provider |-> IF raw.provider = <<>> \/ raw.provider = <<"">>
                  THEN "openai" ELSE raw.provider[1],
   apiKey |-> IF raw.apiKey = <<>> THEN <<>> ELSE Trim(raw.apiKey[1]),
   model |-> IF raw.model = <<>> \/ Trim(raw.model[1]) = <<>>
               THEN DefaultModel ELSE Trim(raw.model[1]),
   temperature |-> IF raw.temperature = <<>>
                     THEN [nan |-> FALSE, v |-> DefaultTemperature]
                     ELSE NumberOf(raw.temperature[1])]

StoredConfig(p) ==
  RawConfig(<<p>>, << <<"k">> >>, << <<"m">> >>, << [numeric |-> TRUE, v |-> 2] >>)

EmptyRaw == RawConfig(<<>>, <<>>, <<>>, <<>>)

\* what JSON.stringify(config) parses back to: NaN is written as null, and
\* Number(null) is 0
AsRaw(cfg) ==
  RawConfig(<<cfg.provider>>, <<cfg.apiKey>>, <<cfg.model>>,
            << [numeric |-> TRUE, v |-> IF cfg.temperature.nan THEN 0 ELSE cfg.temperature.v] >>)

\* { ...current, ...update }: the fields the update has, else those of the
\* configuration in memory
Spread(current, update) ==
  LET mem == RawConfig(<<current.provider>>, <<current.apiKey>>, <<current.model>>,
                       << [numeric |-> ~current.temperature.nan,
                           v |-> current.temperature.v] >>)
  IN [f \in DOMAIN mem |-> IF update[f] # <<>> THEN update[f] ELSE mem[f]]

\* temperature || 0: NaN and 0 are falsy
OrZero(t) == IF t.nan \/ t.v = 0 THEN [nan |-> FALSE, v |-> 0] ELSE t

\* Number.isNaN(merged.temperature || 0), line 494
NaNCheck(merged) == OrZero(merged.temperature).nan

\* the checks of lines 486-502: the error thrown, "" when there is none; a
\* comparison with NaN is false
Rejection(merged) ==
  IF merged.apiKey = <<>> THEN "API key is required"
  ELSE IF merged.model = <<>> THEN "Model is required"
  ELSE IF NaNCheck(merged) THEN "Temperature must be a number"
  ELSE IF ~merged.temperature.nan
          /\ (merged.temperature.v < 0 \/ merged.temperature.v > MaxTemperature)
    THEN "Temperature must be between 0 and 2"
  ELSE ""

\* the bodies of PUT /ai: a field is absent, or present with a value
JsonNumber(v) == << [numeric |-> TRUE, v |-> v] >>
NotANumber == << [numeric |-> FALSE, v |-> 0] >>
Updates ==
  {EmptyRaw,
   RawConfig(<<>>, << <<"k2">> >>, << <<"m2">> >>, JsonNumber(7)),
   RawConfig(<<>>, << <<" ">> >>, <<>>, <<>>),
   RawConfig(<<>>, << <<"k2">> >>, << <<" ">> >>, <<>>),
   RawConfig(<<>>, << <<"k2">> >>, <<>>, JsonNumber(-1)),
   RawConfig(<<>>, << <<"k2">> >>, <<>>, JsonNumber(MaxTemperature + 1)),
   RawConfig(<<>>, << <<"k2">> >>, <<>>, NotANumber)}

\* the states of config/ai.json: absent (ENOENT: the defaults, provider
\* openai, are written), unreadable / not JSON, or a stored configuration
ConfigFiles ==
  {[state |-> "missing", raw |-> EmptyRaw], [state |-> "corrupt", raw |-> EmptyRaw]}
  \cup {[state |-> "ok", raw |-> StoredConfig(p)] : p \in Providers \ {"openai"}}

\* ---------------------------------------------------------- session store
SessionId(containerId, t) == <<containerId, t>>

NewSession(containerId, t) ==
  [id |-> SessionId(containerId, t), containerId |-> containerId,
   messages |-> <<>>, createdAt |-> t, updatedAt |-> t]

\* Map.prototype.set: an existing key keeps its place and gets the new value
MapSet(m, key, ref) ==
  IF \E i \in 1..Len(m) : m[i].key = key
    THEN [i \in 1..Len(m) |-> IF m[i].key = key THEN [key |-> key, ref |-> ref] ELSE m[i]]
    ELSE Append(m, [key |-> key, ref |-> ref])

\* Map.prototype.get: 0 is undefined
getChatSession(m, sessionId) ==
  IF \E i \in 1..Len(m) : m[i].key = sessionId
    THEN m[CHOOSE i \in 1..Len(m) : m[i].key = sessionId].ref
    ELSE 0

\* a slip: the last match instead of the first
FindSession_last(h, m, containerId) ==
  LET hits == {i \in 1..Len(m) : h[m[i].ref].containerId = containerId}
  IN IF hits = {} THEN 0
     ELSE m[CHOOSE i \in hits : \A j \in hits : i >= j].ref

\* Array.from(chatSessions.values()).find(...): the reference of the first
\* registered session of the container, 0 when there is none
FindSession(h, m, containerId) ==
  LET hits == {i \in 1..Len(m) : h[m[i].ref].containerId = containerId}
  IN IF hits = {} THEN 0
     ELSE m[CHOOSE i \in hits : \A j \in hits : i <= j].ref

\* a slip: a session is created when the container has no messages yet
getOrCreateChatSession_unlessUsed(h, m, containerId, t) ==
  LET existing == FindSession(h, m, containerId)
  IN IF existing # 0 /\ h[existing].messages # <<>>
       THEN [heap |-> h, map |-> m, ref |-> existing]
       ELSE [heap |-> Append(h, NewSession(containerId, t)),
             map |-> MapSet(m, SessionId(containerId, t), Len(h) + 1),
             ref |-> Len(h) + 1]

\* a slip: the registry is not searched
getOrCreateChatSession_always(h, m, containerId, t) ==
  [heap |-> Append(h, NewSession(containerId, t)),
   map |-> MapSet(m, SessionId(containerId, t), Len(h) + 1),
   ref |-> Len(h) + 1]

\* lines 54-74
getOrCreateChatSession(h, m, containerId, t) ==
  LET existing == FindSession(h, m, containerId)
  IN IF existing # 0
       THEN [heap |-> h, map |-> m, ref |-> existing]
       ELSE [heap |-> Append(h, NewSession(containerId, t)),
             map |-> MapSet(m, SessionId(containerId, t), Len(h) + 1),
             ref |-> Len(h) + 1]

\* --------------------------------------------------------------- messages
UserMsg(text, attachments, t) ==
  [id |-> <<"user", t>>, role |-> "user", content |-> text,
   attachments |-> attachments]

AssistantMsg(id, content) ==
  [id |-> id, role |-> "assistant", content |-> content, attachments |-> <<>>]

\* a slip: unshift instead of push
createAssistantMessage_unshift(sess, content, t) ==
  [sess EXCEPT !.messages = <<AssistantMsg(<<"assistant", t>>, content)>> \o @,
               !.updatedAt = t]

\* a slip: the user message is not stored
PushUserMsg_dropped(sess, msg) == sess

\* session.messages.push(userMsg), lines 226 and 331
PushUserMsg(sess, msg) == [sess EXCEPT !.messages = Append(@, msg)]

createAssistantMessage(sess, content, t) ==
  [sess EXCEPT !.messages = Append(@, AssistantMsg(<<"assistant", t>>, content)),
               !.updatedAt = t]

\* ------------------------------------------------------------ attachments
\* base64 of the one-character texts that documents hold
Base64Encode(text) ==
  [i \in 1..Len(text) |-> CASE text[i] = "d" -> "ZA==" [] text[i] = "e" -> "ZQ==" [] OTHER -> "Pw=="]

\* a slip: the data used as it is
Base64Decode_none(data) == data

\* Buffer.from(data, "base64").toString("utf-8")
Base64Decode(data) ==
  [i \in 1..Len(data) |-> CASE data[i] = "ZA==" -> "d" [] data[i] = "ZQ==" -> "e" [] OTHER -> "?"]

Doc == [type |-> "document", data |-> Base64Encode(<<"d">>), name |-> "n",
        mimeType |-> "text/plain"]
Doc2 == [type |-> "document", data |-> Base64Encode(<<"e">>), name |-> "m",
         mimeType |-> "text/plain"]
Image == [type |-> "image", data |-> <<"iVBOR">>, name |-> "p", mimeType |-> "image/png"]

\* a part of a provider's message content; the fields a part does not have
\* are empty
Part(type, text, mimeType, data) ==
  [type |-> type, text |-> text, mimeType |-> mimeType, data |-> data]

\* `\n\nDocument "${attachment.name}" content:\n${decodedText}`
DocumentText(attachment) ==
  <<"\n\n", "Document", attachment.name, "content:\n">> \o Base64Decode(attachment.data)

\* `data:${attachment.mimeType};base64,${attachment.data}`
DataUrl(attachment) == <<"data:", attachment.mimeType, ";base64,">> \o attachment.data

RECURSIVE OpenAIParts(_)
\* the loop of lines 82-99
OpenAIParts(attachments) ==
  IF attachments = <<>> THEN <<>>
  ELSE LET a == Head(attachments)
       IN (IF a.type = "image"
             THEN <<Part("image_url", <<>>, "", DataUrl(a))>>
             ELSE IF a.type = "document"
               THEN <<Part("text", DocumentText(a), "", <<>>)>>
               ELSE <<>>)
          \o OpenAIParts(Tail(attachments))

buildMessageContent(message, attachments) ==
  <<Part("text", message, "", <<>>)>> \o OpenAIParts(attachments)

RECURSIVE AnthropicParts(_)
\* the loop of lines 109-128
AnthropicParts(attachments) ==
  IF attachments = <<>> THEN <<>>
  ELSE LET a == Head(attachments)
       IN (IF a.type = "image"
             THEN <<Part("image", <<>>, a.mimeType, a.data)>>
             ELSE IF a.type = "document"
               THEN <<Part("text", DocumentText(a), "", <<>>)>>
               ELSE <<>>)
          \o AnthropicParts(Tail(attachments))

buildAnthropicContent(message, attachments) ==
  <<Part("text", message, "", <<>>)>> \o AnthropicParts(attachments)

RECURSIVE GeminiParts(_)
\* the loop of lines 134-150
GeminiParts(attachments) ==
  IF attachments = <<>> THEN <<>>
  ELSE LET a == Head(attachments)
       IN (IF a.type = "image"
             THEN <<Part("inlineData", <<>>, a.mimeType, a.data)>>
             ELSE IF a.type = "document"
               THEN <<Part("text", DocumentText(a), "", <<>>)>>
               ELSE <<>>)
          \o GeminiParts(Tail(attachments))

buildGeminiParts(message, attachments) ==
  <<Part("text", message, "", <<>>)>> \o GeminiParts(attachments)

\* a slip: every message of the history as one text part
toGeminiHistory_plain(messages) ==
  [i \in 1..Len(messages) |->
     [role |-> IF messages[i].role = "assistant" THEN "model" ELSE "user",
      parts |-> <<Part("text", messages[i].content, "", <<>>)>>]]

\* lines 177-185; a message without attachments has `attachments` undefined
toGeminiHistory(messages) ==
  [i \in 1..Len(messages) |->
     [role |-> IF messages[i].role = "assistant" THEN "model" ELSE "user",
      parts |-> IF messages[i].role = "user" /\ messages[i].attachments # <<>>
                  THEN buildGeminiParts(messages[i].content, messages[i].attachments)
                  ELSE <<Part("text", messages[i].content, "", <<>>)>>]]

\* Array.prototype.slice(0, -1)
AllButLast(seq) == SubSeq(seq, 1, Len(seq) - 1)

\* lines 263-267: payload.contents of the Gemini request
GeminiContents(messages, userMsg) ==
  toGeminiHistory(AllButLast(messages))
    \o <<[role |-> "user",
          parts |-> buildGeminiParts(userMsg.content, userMsg.attachments)]>>

\* the request of a call: the contents sent, and the session's messages as
\* they were when the contents were built
NoRequest == [contents |-> <<>>, messages |-> <<>>]

\* the attachment lists given to the normalizers
Attachments == {Doc, Doc2, Image}
Lists == UNION {[1..n -> Attachments] : n \in 0..MaxAttachments}
Messages == {<<>>, <<"q">>}
Normalizers == {"openai", "anthropic", "gemini"}

NoNorm ==
  [message |-> <<>>, attachments |-> <<>>, done |-> {},
   openai |-> <<>>, anthropic |-> <<>>, gemini |-> <<>>]

\* ------------------------------------------------------- provider outputs
\* completion.choices[0]?.message?.content || "Sorry, ..."
OpenAIContent(c) == IF c.present /\ c.text # <<>> THEN c.text ELSE Fallback

\* response.content.map(part => part.type === "text" ? part.text : "").join("").trim()
AnthropicContent(parts) ==
  Trim(Join([i \in 1..Len(parts) |->
               IF parts[i].type = "text" THEN parts[i].text ELSE <<>>]))

\* parts.map(part => part.text || "").join("").trim()
GeminiContent(parts) ==
  Trim(Join([i \in 1..Len(parts) |-> IF parts[i] = <<>> THEN <<>> ELSE parts[i][1]]))

\* if (!assistantContent) assistantContent = "Sorry, ..."
WithFallback(content) == IF content = <<>> THEN Fallback ELSE content

\* what the providers may answer
OpenAIContents ==
  {[present |-> FALSE, text |-> <<>>], [present |-> TRUE, text |-> <<>>],
   [present |-> TRUE, text |-> <<" ">>], [present |-> TRUE, text |-> <<"ok">>]}

TextPart(t) == [type |-> "text", text |-> t]
ToolPart == [type |-> "tool_use", text |-> <<"zz">>]

AnthropicResponses ==
  {<<>>, <<TextPart(<<"ok">>)>>, <<TextPart(<<" ">>)>>,
   <<ToolPart, TextPart(<<" ">>), TextPart(<<"ok">>)>>, <<ToolPart>>}

GeminiBodies ==
  {[ok |-> FALSE, parts |-> <<>>], [ok |-> TRUE, parts |-> <<>>],
   [ok |-> TRUE, parts |-> << <<>>, << <<"ok">> >> >>],
   [ok |-> TRUE, parts |-> << << <<" ">> >> >>]}

\* chunk.choices[0]?.delta?.content of a stream chunk: <<>> is a chunk
\* without text (no choice, no delta, no content, or ""), else the text
Deltas == {<<>>, <<"a">>, <<"b", "c">>}

\* if (delta?.content)
HasText(d) == d # <<>>

\* a slip: `=` for `+=`
Accumulate_replace(content, d) == d

\* a slip: the delta put in front of the buffer
Accumulate_prepend(content, d) == d \o content

\* assistantContent += delta.content
Accumulate(content, d) == content \o d

\* a slip: a fresh id for every snapshot
Snapshot_freshId(assistantId, content, t) == AssistantMsg(<<"assistant", t>>, content)

\* the data of an "assistant" event of the streaming loop, built at time t
Snapshot(assistantId, content, t) == AssistantMsg(assistantId, content)

\* ------------------------------------------------------------------ calls
Texts == {<<"q">>}
AttachmentLists == {<<>>}
NoMsg == AssistantMsg(<<"none", 0>>, <<>>)
NoConfig == normalizeConfig(EmptyRaw)

\* A call's record: its arguments and locals, its position, and for the
\* claims the session as the call found it (before), the non-empty
\* delta.content values its stream has delivered (texts), the log of its
\* appends and yields (hist) and the Gemini request it has sent (request).
\* A call of getAiConfig or updateAiConfig has, besides pc, kind and aiConfig,
\* the update, its merged configuration and the error thrown, and for the
\* claims what the call is to return if the last update is to last (seen).
IdleCall ==
  [pc |-> "idle", kind |-> "none", inSend |-> FALSE, containerId |-> "c1",
   userMessage |-> <<>>, attachments |-> <<>>, session |-> 0,
   before |-> NewSession("c1", 0),
   userMsg |-> NoMsg, assistantMsg |-> NoMsg, aiConfig |-> NoConfig,
   assistantContent |-> <<>>, assistantId |-> <<"none", 0>>,
   texts |-> <<>>, hist |-> <<>>, request |-> NoRequest,
   update |-> EmptyRaw, merged |-> NoConfig, error |-> "", seen |-> <<>>]

Appended(sess, msg) == [op |-> "append", type |-> msg.role, data |-> msg, session |-> sess]
Yielded(type, msg) == [op |-> "yield", type |-> type, data |-> msg, session |-> 0]

\* a slip: the user event yielded before the message is pushed
StreamUserSteps_yieldFirst(ref, userMsg) ==
  <<Yielded("user", userMsg), Appended(ref, userMsg)>>

\* lines 331-332: session.messages.push(userMsg); yield {type: "user", ...}
StreamUserSteps(ref, userMsg) == <<Appended(ref, userMsg), Yielded("user", userMsg)>>

\* a slip: the assistant event carries result.userMessage
WrappedEvent_userTwice(k, i) ==
  <<Yielded("user", k.userMsg), Yielded("assistant", k.userMsg),
    Yielded("done", k.assistantMsg)>>[i]

\* lines 315-317: the i-th event of the sequence that wraps sendMessage
WrappedEvent(k, i) ==
  <<Yielded("user", k.userMsg), Yielded("assistant", k.assistantMsg),
    Yielded("done", k.assistantMsg)>>[i]

Ended == {"idle", "returned", "finished", "failed", "abandoned"}
AtYield == {"yUser", "yAsst", "yDone", "wUser", "wAsst", "wDone"}

IsOpenAI(cfg) == cfg.provider = "openai" \/ cfg.provider = "openrouter"

Init ==
  /\ now = 0
  /\ heap = <<>>
  /\ chatSessions = <<>>
  /\ cachedConfig = <<>>
  /\ configFile \in ConfigFiles
  /\ calls = [c \in Clients |-> IdleCall]
  /\ started = 0
  /\ created = 0
  /\ delivered = 0
  /\ updates = 0
  /\ lastUpdate = <<>>
  /\ storeLog = <<>>
  /\ norm = NoNorm

\* what a read of the clock may return
Clock == now..MaxTime

\* an entry of storeLog: the function called, its argument, the session it
\* returned and the registry it left
StoreCall(op, containerId, ref, map) ==
  [op |-> op, containerId |-> containerId, ref |-> ref, map |-> map]

createChatSession(containerId) ==
  /\ created < MaxCreates
  /\ created' = created + 1
  /\ \E t \in Clock :
       LET map == MapSet(chatSessions, SessionId(containerId, t), Len(heap) + 1)
       IN /\ now' = t
          /\ heap' = Append(heap, NewSession(containerId, t))
          /\ chatSessions' = map
          /\ storeLog' = Append(storeLog, StoreCall("create", containerId, Len(heap) + 1, map))
  /\ UNCHANGED <<cachedConfig, configFile, calls, started, delivered, updates, lastUpdate, norm>>

\* a call of getOrCreateChatSession from outside the chat calls; the clock
\* is read when a session is created (line 63)
GetOrCreate(containerId) ==
  /\ started < MaxCalls
  /\ started' = started + 1
  /\ \E t \in (IF FindSession(heap, chatSessions, containerId) = 0 THEN Clock ELSE {now}) :
       LET r == getOrCreateChatSession(heap, chatSessions, containerId, t)
       IN /\ now' = t
          /\ heap' = r.heap
          /\ chatSessions' = r.map
          /\ storeLog' = Append(storeLog, StoreCall("getOrCreate", containerId, r.ref, r.map))
  /\ UNCHANGED <<cachedConfig, configFile, calls, created, delivered, updates, lastUpdate, norm>>

\* getAiConfig up to its first suspension: the cached value, or a file read
GetAiConfigPc == IF cachedConfig = <<>> THEN "readCfg" ELSE "cfg"
GetAiConfigValue(old) == IF cachedConfig = <<>> THEN old ELSE cachedConfig[1]

\* sendMessage, lines 216-227: resolve the session, append the user message,
\* call getAiConfig
EnterSendMessage(c, k, t) ==
  LET r == getOrCreateChatSession(heap, chatSessions, k.containerId, t)
      userMsg == UserMsg(k.userMessage, k.attachments, t)
  IN /\ now' = t
     /\ heap' = [r.heap EXCEPT ![r.ref] = PushUserMsg(@, userMsg)]
     /\ chatSessions' = r.map
     /\ calls' = [calls EXCEPT ![c] =
          [k EXCEPT !.inSend = TRUE, !.session = r.ref, !.userMsg = userMsg,
                    !.before = r.heap[r.ref],
                    !.hist = Append(@, Appended(r.ref, userMsg)),
                    !.aiConfig = GetAiConfigValue(@),
                    !.pc = GetAiConfigPc]]

\* sendMessageStream, lines 321-332: resolve the session, append the user
\* message, yield the user event
EnterStream(c, k, t) ==
  LET r == getOrCreateChatSession(heap, chatSessions, k.containerId, t)
      userMsg == UserMsg(k.userMessage, k.attachments, t)
  IN /\ now' = t
     /\ heap' = [r.heap EXCEPT ![r.ref] = PushUserMsg(@, userMsg)]
     /\ chatSessions' = r.map
     /\ calls' = [calls EXCEPT ![c] =
          [k EXCEPT !.session = r.ref, !.userMsg = userMsg,
                    !.before = r.heap[r.ref],
                    !.hist = @ \o StreamUserSteps(r.ref, userMsg),
                    !.pc = "yUser"]]

\* a guard the program does not have: one call at a time
MayStart_oneAtATime(c) ==
  /\ started < MaxCalls
  /\ \A d \in Clients : calls[d].pc \in Ended

MayStart(c) ==
  /\ started < MaxCalls
  /\ calls[c].pc \in Ended

NewCall(kind, containerId, text, attachments) ==
  [IdleCall EXCEPT !.kind = kind, !.containerId = containerId,
                   !.userMessage = text, !.attachments = attachments]

sendMessage(c, containerId, text, attachments) ==
  /\ MayStart(c)
  /\ started' = started + 1
  /\ \E t \in Clock : EnterSendMessage(c, NewCall("send", containerId, text, attachments), t)
  /\ UNCHANGED <<cachedConfig, configFile, otherVars, delivered>>

\* the consumer's first next(): the generator runs to `await getAiConfig()`
sendMessageStream(c, containerId, text, attachments) ==
  /\ MayStart(c)
  /\ started' = started + 1
  /\ calls' = [calls EXCEPT ![c] =
       [NewCall("stream", containerId, text, attachments)
          EXCEPT !.aiConfig = GetAiConfigValue(@), !.pc = GetAiConfigPc]]
  /\ UNCHANGED <<now, heap, chatSessions, cachedConfig, configFile, otherVars, delivered>>

\* readConfig's readFile completes (getAiConfig, line 477)
ReadConfigDone(c) ==
  /\ calls[c].pc = "readCfg"
  /\ \/ /\ configFile.state = "ok"
        /\ cachedConfig' = <<normalizeConfig(configFile.raw)>>
        /\ calls' = [calls EXCEPT ![c].aiConfig = normalizeConfig(configFile.raw),
                                  ![c].pc = "cfg"]
     \/ /\ configFile.state = "missing"
        /\ calls' = [calls EXCEPT ![c].pc = "writeCfg"]
        /\ UNCHANGED cachedConfig
     \/ /\ configFile.state = "corrupt"
        /\ calls' = [calls EXCEPT ![c].pc = "failed"]
        /\ UNCHANGED cachedConfig
  /\ UNCHANGED <<now, heap, chatSessions, configFile, started, otherVars, delivered>>

\* readConfig's writeConfig(defaults) completes or fails (lines 462-464)
WriteDefaultsDone(c) ==
  /\ calls[c].pc = "writeCfg"
  /\ \/ /\ configFile' = [state |-> "ok", raw |-> AsRaw(normalizeConfig(EmptyRaw))]
        /\ cachedConfig' = <<normalizeConfig(EmptyRaw)>>
        /\ calls' = [calls EXCEPT ![c].aiConfig = normalizeConfig(EmptyRaw),
                                  ![c].pc = "cfg"]
     \/ /\ calls' = [calls EXCEPT ![c].pc = "failed"]
        /\ UNCHANGED <<configFile, cachedConfig>>
  /\ UNCHANGED <<now, heap, chatSessions, started, otherVars, delivered>>

\* the code after `await getAiConfig()`: llm.ts:228 in sendMessage,
\* llm.ts:313-332 in sendMessageStream
AfterConfig(c) ==
  /\ calls[c].pc = "cfg"
  /\ \/ /\ calls[c].inSend
        /\ calls' = [calls EXCEPT ![c].pc = "ctx"]
        /\ UNCHANGED <<now, heap, chatSessions>>
     \/ /\ ~calls[c].inSend
        /\ ~IsOpenAI(calls[c].aiConfig)
        /\ \E t \in Clock : EnterSendMessage(c, calls[c], t)
     \/ /\ ~calls[c].inSend
        /\ IsOpenAI(calls[c].aiConfig)
        /\ \E t \in Clock : EnterStream(c, calls[c], t)
  /\ UNCHANGED <<cachedConfig, configFile, started, otherVars, delivered>>

\* getSystemPrompt returns; the request to the provider is built and sent
ContextDone(c) ==
  /\ calls[c].pc = "ctx"
  /\ \/ /\ calls[c].inSend
        /\ calls' = [calls EXCEPT
             ![c].pc = "provider",
             ![c].request =
               IF IsOpenAI(calls[c].aiConfig) \/ calls[c].aiConfig.provider = "anthropic"
                 THEN @
                 ELSE [contents |-> GeminiContents(heap[calls[c].session].messages,
                                                   calls[c].userMsg),
                       messages |-> heap[calls[c].session].messages]]
        /\ UNCHANGED now
     \/ /\ ~calls[c].inSend
        /\ \E t \in Clock :
             /\ now' = t
             /\ calls' = [calls EXCEPT ![c].pc = "open",
                                       ![c].assistantId = <<"assistant", t>>]
  /\ UNCHANGED <<heap, chatSessions, cachedConfig, configFile, started, otherVars, delivered>>

\* getSystemPrompt throws
ContextFail(c) ==
  /\ calls[c].pc = "ctx"
  /\ calls' = [calls EXCEPT ![c].pc = "failed"]
  /\ UNCHANGED <<now, heap, chatSessions, cachedConfig, configFile, started, otherVars, delivered>>

\* a slip: the answer is pushed to every session of the container
FinishSend_everySession(c, content, t) ==
  LET k == calls[c]
      final == WithFallback(content)
      sess == createAssistantMessage(heap[k.session], final, t)
      msg == sess.messages[Len(sess.messages)]
  IN /\ now' = t
     /\ heap' = [ref \in 1..Len(heap) |->
                   IF heap[ref].containerId = k.containerId
                     THEN createAssistantMessage(heap[ref], final, t)
                     ELSE heap[ref]]
     /\ calls' = [calls EXCEPT ![c] =
          [k EXCEPT !.assistantContent = final, !.assistantMsg = msg,
                    !.hist = IF k.kind = "stream"
                               THEN @ \o <<Appended(k.session, msg),
                                          WrappedEvent([k EXCEPT !.assistantMsg = msg], 1)>>
                               ELSE Append(@, Appended(k.session, msg)),
                    !.pc = IF k.kind = "stream" THEN "wUser" ELSE "returned"]]

\* sendMessage, lines 295-304 (and 315 when sendMessageStream wraps it)
FinishSend(c, content, t) ==
  LET k == calls[c]
      final == WithFallback(content)
      sess == createAssistantMessage(heap[k.session], final, t)
      msg == sess.messages[Len(sess.messages)]
  IN /\ now' = t
     /\ heap' = [heap EXCEPT ![k.session] = sess]
     /\ calls' = [calls EXCEPT ![c] =
          [k EXCEPT !.assistantContent = final, !.assistantMsg = msg,
                    !.hist = IF k.kind = "stream"
                               THEN @ \o <<Appended(k.session, msg),
                                          WrappedEvent([k EXCEPT !.assistantMsg = msg], 1)>>
                               ELSE Append(@, Appended(k.session, msg)),
                    !.pc = IF k.kind = "stream" THEN "wUser" ELSE "returned"]]

\* the provider answers the single-shot request
ProviderRespond(c) ==
  /\ calls[c].pc = "provider"
  /\ \/ /\ IsOpenAI(calls[c].aiConfig)
        /\ \E r \in OpenAIContents, t \in Clock : FinishSend(c, OpenAIContent(r), t)
     \/ /\ calls[c].aiConfig.provider = "anthropic"
        /\ \E r \in AnthropicResponses, t \in Clock :
             FinishSend(c, AnthropicContent(r), t)
     \/ /\ ~IsOpenAI(calls[c].aiConfig)
        /\ calls[c].aiConfig.provider # "anthropic"
        /\ \E r \in GeminiBodies, t \in Clock :
             IF r.ok THEN FinishSend(c, GeminiContent(r.parts), t)
             ELSE /\ calls' = [calls EXCEPT ![c].pc = "failed"]
                  /\ UNCHANGED <<now, heap>>
  /\ UNCHANGED <<chatSessions, cachedConfig, configFile, started, otherVars, delivered>>

\* a slip: the partial text is persisted when the stream throws
ProviderFail_flush(c) ==
  /\ calls[c].pc \in {"provider", "open", "loop"}
  /\ calls' = [calls EXCEPT ![c].pc = "failed"]
  /\ heap' = IF calls[c].pc = "loop"
               THEN [heap EXCEPT ![calls[c].session] =
                       createAssistantMessage(@, calls[c].assistantContent, now)]
               ELSE heap
  /\ UNCHANGED <<now, chatSessions, cachedConfig, configFile, started, otherVars, delivered>>

\* the provider call throws: the single-shot request, the opening of the
\* stream, or the stream while it is read
ProviderFail(c) ==
  /\ calls[c].pc \in {"provider", "open", "loop"}
  /\ calls' = [calls EXCEPT ![c].pc = "failed"]
  /\ UNCHANGED <<now, heap, chatSessions, cachedConfig, configFile, started, otherVars, delivered>>

\* client.chat.completions.create({stream: true}) resolves
StreamOpened(c) ==
  /\ calls[c].pc = "open"
  /\ calls' = [calls EXCEPT ![c].pc = "loop"]
  /\ UNCHANGED <<now, heap, chatSessions, cachedConfig, configFile, started, otherVars, delivered>>

\* a slip: every snapshot is persisted as a message
Chunk_persistEach(c, d) ==
  LET k == calls[c]
      content == Accumulate(k.assistantContent, d)
  IN /\ k.pc = "loop"
     /\ delivered < MaxChunks
     /\ delivered' = delivered + 1
     /\ \E t \in (IF HasText(d) THEN Clock ELSE {now}) :
          /\ now' = t
          /\ calls' = [calls EXCEPT ![c] =
               IF HasText(d)
                 THEN [k EXCEPT !.texts = Append(@, d), !.assistantContent = content,
                                !.hist = Append(@, Yielded("assistant",
                                                   Snapshot(k.assistantId, content, t))),
                                !.pc = "yAsst"]
                 ELSE k]
     /\ heap' = IF HasText(d)
                  THEN [heap EXCEPT ![k.session] = createAssistantMessage(@, content, now)]
                  ELSE heap
     /\ UNCHANGED <<chatSessions, cachedConfig, configFile, started, otherVars>>

\* one iteration of the for-await loop, lines 352-366
Chunk(c, d) ==
  LET k == calls[c]
      content == Accumulate(k.assistantContent, d)
  IN /\ k.pc = "loop"
     /\ delivered < MaxChunks
     /\ delivered' = delivered + 1
     /\ \E t \in (IF HasText(d) THEN Clock ELSE {now}) :
          /\ now' = t
          /\ calls' = [calls EXCEPT ![c] =
               IF HasText(d)
                 THEN [k EXCEPT !.texts = Append(@, d), !.assistantContent = content,
                                !.hist = Append(@, Yielded("assistant",
                                                   Snapshot(k.assistantId, content, t))),
                                !.pc = "yAsst"]
                 ELSE k]
     /\ UNCHANGED <<heap, chatSessions, cachedConfig, configFile, started, otherVars>>

\* the upstream stream ends: lines 368-373
StreamEnd(c) ==
  /\ calls[c].pc = "loop"
  /\ \E t \in Clock :
       LET k == calls[c]
           sess == createAssistantMessage(heap[k.session], k.assistantContent, t)
           msg == sess.messages[Len(sess.messages)]
       IN /\ now' = t
          /\ heap' = [heap EXCEPT ![k.session] = sess]
          /\ calls' = [calls EXCEPT ![c] =
               [k EXCEPT !.assistantMsg = msg,
                         !.hist = @ \o <<Appended(k.session, msg), Yielded("done", msg)>>,
                         !.pc = "yDone"]]
  /\ UNCHANGED <<chatSessions, cachedConfig, configFile, started, otherVars, delivered>>

\* the consumer calls next() on the suspended generator
Pull(c) ==
  LET k == calls[c]
  IN /\ k.pc \in AtYield
     /\ calls' = [calls EXCEPT ![c] =
          CASE k.pc = "yUser" -> [k EXCEPT !.pc = "ctx"]
            [] k.pc = "yAsst" -> [k EXCEPT !.pc = "loop"]
            [] k.pc = "wUser" ->
                 [k EXCEPT !.hist = Append(@, WrappedEvent(k, 2)), !.pc = "wAsst"]
            [] k.pc = "wAsst" ->
                 [k EXCEPT !.hist = Append(@, WrappedEvent(k, 3)), !.pc = "wDone"]
            [] OTHER -> [k EXCEPT !.pc = "finished"]]
     /\ UNCHANGED <<now, heap, chatSessions, cachedConfig, configFile, started, otherVars, delivered>>

\* the consumer stops pulling and drops the suspended generator
Abandon(c) ==
  /\ calls[c].pc \in AtYield
  /\ calls' = [calls EXCEPT ![c].pc = "abandoned"]
  /\ UNCHANGED <<now, heap, chatSessions, cachedConfig, configFile, started, otherVars, delivered>>

\* The containers are interchangeable: "c2" is used once "c1" has a session.
InOrder(containerId) ==
  containerId = "c2" => \E i \in 1..Len(heap) : heap[i].containerId = "c1"

\* One caller issues its calls one after the other: each call ends (returns,
\* throws, or its stream is drained or dropped) before the next starts.  Its
\* sendMessage calls name either container, its streams the first.
Caller == "t1"

Next ==
  \/ \E cid \in Containers, t \in Texts, a \in AttachmentLists :
       InOrder(cid) /\ sendMessage(Caller, cid, t, a)
  \/ \E t \in Texts, a \in AttachmentLists : sendMessageStream(Caller, "c1", t, a)
  \/ ReadConfigDone(Caller)
  \/ WriteDefaultsDone(Caller)
  \/ AfterConfig(Caller)
  \/ ContextDone(Caller)
  \/ ContextFail(Caller)
  \/ ProviderRespond(Caller)
  \/ ProviderFail(Caller)
  \/ StreamOpened(Caller)
  \/ \E d \in Deltas : Chunk(Caller, d)
  \/ StreamEnd(Caller)
  \/ Pull(Caller)
  \/ Abandon(Caller)

Spec == Init /\ [][Next]_vars

\* The session store on its own: createChatSession and getOrCreateChatSession
\* called in any order for either container.
NextStore ==
  \/ \E cid \in Containers : createChatSession(cid)
  \/ \E cid \in Containers : GetOrCreate(cid)

SpecStore == Init /\ [][NextStore]_vars

\* ai-config on its own: two clients call getAiConfig and updateAiConfig with
\* nothing that makes one call wait for the other.
\* what a getAiConfig call that starts now is to return: the configuration
\* of the last update that returned, when there is one and no update is
\* running; `updates` tells whether an update has started since
Seen ==
  IF lastUpdate # <<>> /\ \A d \in Clients : calls[d].kind = "update" => calls[d].pc \in Ended
    THEN <<[config |-> lastUpdate[1], updates |-> updates]>>
    ELSE <<>>

GetAiConfig(c) ==
  /\ started < MaxCalls
  /\ calls[c].pc \in Ended
  /\ started' = started + 1
  /\ calls' = [calls EXCEPT ![c] =
       [IdleCall EXCEPT !.kind = "get", !.seen = Seen,
                        !.aiConfig = GetAiConfigValue(@), !.pc = GetAiConfigPc]]
  /\ UNCHANGED <<now, heap, chatSessions, cachedConfig, configFile, delivered, otherVars>>

\* `return cachedConfig` reaches the caller of getAiConfig
GetReturned(c) ==
  /\ calls[c].kind = "get"
  /\ calls[c].pc = "cfg"
  /\ calls' = [calls EXCEPT ![c].pc = "returned"]
  /\ UNCHANGED <<now, heap, chatSessions, cachedConfig, configFile, started, delivered,
                 otherVars>>

\* updateAiConfig up to `await getAiConfig()`, line 483
UpdateAiConfig(c, update) ==
  /\ updates < MaxUpdates
  /\ calls[c].pc \in Ended
  /\ updates' = updates + 1
  /\ calls' = [calls EXCEPT ![c] =
       [IdleCall EXCEPT !.kind = "update", !.update = update,
                        !.aiConfig = GetAiConfigValue(@), !.pc = GetAiConfigPc]]
  /\ UNCHANGED <<now, heap, chatSessions, cachedConfig, configFile, started, delivered,
                 created, lastUpdate, storeLog, norm>>

\* lines 484-505: merge, validate, set the cache, start the write
UpdateValidate(c) ==
  LET k == calls[c]
      merged == normalizeConfig(Spread(k.aiConfig, k.update))
  IN /\ k.kind = "update"
     /\ k.pc = "cfg"
     /\ IF Rejection(merged) # ""
          THEN /\ calls' = [calls EXCEPT ![c].pc = "failed", ![c].merged = merged,
                                         ![c].error = Rejection(merged)]
               /\ UNCHANGED cachedConfig
          ELSE /\ calls' = [calls EXCEPT ![c].pc = "writeUpd", ![c].merged = merged]
               /\ cachedConfig' = <<merged>>
     /\ UNCHANGED <<now, heap, chatSessions, configFile, started, delivered, otherVars>>

\* writeConfig(merged) completes and updateAiConfig returns, or it fails
UpdateWritten(c) ==
  /\ calls[c].pc = "writeUpd"
  /\ \/ /\ configFile' = [state |-> "ok", raw |-> AsRaw(calls[c].merged)]
        /\ calls' = [calls EXCEPT ![c].pc = "returned"]
        /\ lastUpdate' = <<calls[c].merged>>
     \/ /\ calls' = [calls EXCEPT ![c].pc = "failed", ![c].error = "write failed"]
        /\ UNCHANGED <<configFile, lastUpdate>>
  /\ UNCHANGED <<now, heap, chatSessions, cachedConfig, started, delivered, created,
                 updates, storeLog, norm>>

NextConfig ==
  \E c \in Clients :
    \/ GetAiConfig(c)
    \/ GetReturned(c)
    \/ \E u \in Updates : UpdateAiConfig(c, u)
    \/ ReadConfigDone(c)
    \/ WriteDefaultsDone(c)
    \/ UpdateValidate(c)
    \/ UpdateWritten(c)

SpecConfig == Init /\ [][NextConfig]_vars

\* Two clients call sendMessage for one container with nothing that makes
\* one call wait for the other; the provider is google-gemini.  Each client
\* asks a question of its own, with or without attachments.
InitConc ==
  /\ now = 0
  /\ heap = <<>>
  /\ chatSessions = <<>>
  /\ cachedConfig = <<>>
  /\ configFile = [state |-> "ok", raw |-> StoredConfig("google-gemini")]
  /\ calls = [c \in Clients |-> IdleCall]
  /\ started = 0
  /\ created = 0
  /\ delivered = 0
  /\ updates = 0
  /\ lastUpdate = <<>>
  /\ storeLog = <<>>
  /\ norm = NoNorm

Question(c) == <<c>>
ConcAttachments == {<<>>, <<Image, Doc>>}

NextConc ==
  \E c \in Clients :
    \/ \E a \in ConcAttachments : sendMessage(c, "c1", Question(c), a)
    \/ ReadConfigDone(c)
    \/ AfterConfig(c)
    \/ ContextDone(c)
    \/ ContextFail(c)
    \/ ProviderRespond(c)
    \/ ProviderFail(c)

SpecConc == InitConc /\ [][NextConc]_vars

\* Two clients call sendMessage and sendMessageStream for either container
\* with nothing that makes one call wait for the other, and createChatSession
\* is not called: the sessions are those the calls create.  The stored
\* configuration names a provider that streams or one that does not, and a
\* stream's chunks carry the text "a".
InitRace ==
  /\ Init
  /\ configFile \in {[state |-> "ok", raw |-> StoredConfig(p)] :
                       p \in {"openrouter", "google-gemini"}}

\* each client makes one call
FirstCall(c) == calls[c].kind = "none"

NextRace ==
  \E c \in Clients :
    \/ \E cid \in Containers :
         FirstCall(c) /\ InOrder(cid) /\ sendMessage(c, cid, Question(c), <<>>)
    \/ \E cid \in Containers :
         FirstCall(c) /\ sendMessageStream(c, cid, Question(c), <<>>)
    \/ ReadConfigDone(c)
    \/ AfterConfig(c)
    \/ ContextDone(c)
    \/ ContextFail(c)
    \/ ProviderRespond(c)
    \/ ProviderFail(c)
    \/ StreamOpened(c)
    \/ Chunk(c, <<"a">>)
    \/ StreamEnd(c)
    \/ Pull(c)
    \/ Abandon(c)

SpecRace == InitRace /\ [][NextRace]_vars

\* One caller makes one sendMessage or sendMessageStream call for either
\* container, and createChatSession is called for either container before,
\* during and after it.
NextFrame ==
  \/ \E cid \in Containers : createChatSession(cid)
  \/ \E cid \in Containers :
       FirstCall(Caller) /\ sendMessage(Caller, cid, Question(Caller), <<>>)
  \/ \E cid \in Containers :
       FirstCall(Caller) /\ sendMessageStream(Caller, cid, Question(Caller), <<>>)
  \/ ReadConfigDone(Caller)
  \/ AfterConfig(Caller)
  \/ ContextDone(Caller)
  \/ ContextFail(Caller)
  \/ ProviderRespond(Caller)
  \/ ProviderFail(Caller)
  \/ StreamOpened(Caller)
  \/ Chunk(Caller, <<"a">>)
  \/ StreamEnd(Caller)
  \/ Pull(Caller)
  \/ Abandon(Caller)

SpecFrame == InitRace /\ [][NextFrame]_vars

\* The content normalizers on their own: each is applied to a message text
\* and an attachment list.
InitNorm ==
  /\ now = 0
  /\ heap = <<>>
  /\ chatSessions = <<>>
  /\ cachedConfig = <<>>
  /\ configFile = [state |-> "missing", raw |-> EmptyRaw]
  /\ calls = [c \in Clients |-> IdleCall]
  /\ started = 0
  /\ created = 0
  /\ delivered = 0
  /\ updates = 0
  /\ lastUpdate = <<>>
  /\ storeLog = <<>>
  /\ norm \in {[NoNorm EXCEPT !.message = m, !.attachments = a] :
                 m \in Messages, a \in Lists}

Normalize(which, parts) ==
  /\ which \notin norm.done
  /\ norm' = [norm EXCEPT !.done = @ \cup {which}, ![which] = parts]
  /\ UNCHANGED <<now, heap, chatSessions, cachedConfig, configFile, calls, started, created,
                 delivered, updates, lastUpdate, storeLog>>

BuildMessageContent == Normalize("openai", buildMessageContent(norm.message, norm.attachments))
BuildAnthropicContent ==
  Normalize("anthropic", buildAnthropicContent(norm.message, norm.attachments))
BuildGeminiParts == Normalize("gemini", buildGeminiParts(norm.message, norm.attachments))

NextNorm == BuildMessageContent \/ BuildAnthropicContent \/ BuildGeminiParts

SpecNorm == InitNorm /\ [][NextNorm]_vars

\* ------------------------------------------------------------ the claims
IsAppend(e, role) == e.op = "append" /\ e.type = role
IsEvent(e, type) == e.op = "yield" /\ e.type = type
IsYield(e) == e.op = "yield"
IsAppendOp(e) == e.op = "append"
IsAssistantEvent(e) == IsEvent(e, "assistant")

Events(k) == SelectSeq(k.hist, IsYield)
Appends(k) == SelectSeq(k.hist, IsAppendOp)
AssistantEvents(k) == SelectSeq(k.hist, IsAssistantEvent)
HasDone(k) == \E i \in 1..Len(k.hist) : IsEvent(k.hist[i], "done")
HasAssistantAppend(k) == \E i \in 1..Len(k.hist) : IsAppend(k.hist[i], "assistant")
LastOf(seq) == seq[Len(seq)]

\* the genuinely streaming path of sendMessageStream, and the path wrapping
\* sendMessage
Streaming(k) == k.kind = "stream" /\ ~k.inSend /\ k.session # 0
Wrapping(k) == k.kind = "stream" /\ k.inSend

\* C1: a sendMessage call that returns has appended to the session looked up
\* for its containerId its user message and then its assistant message and
\* nothing else, and the session's updatedAt is not earlier than before.
C1_SendAppendsUserThenAssistant ==
  \A c \in Clients :
    LET k == calls[c]
    IN (k.kind = "send" /\ k.pc = "returned") =>
         /\ k.session = FindSession(heap, chatSessions, k.containerId)
         /\ k.userMsg.role = "user"
         /\ k.userMsg.content = k.userMessage
         /\ k.assistantMsg.role = "assistant"
         /\ Appends(k) = <<Appended(k.session, k.userMsg),
                           Appended(k.session, k.assistantMsg)>>
         /\ heap[k.session].messages = k.before.messages \o <<k.userMsg, k.assistantMsg>>
         /\ heap[k.session].updatedAt >= k.before.updatedAt

C1_Witness ==
  \E c \in Clients :
    /\ calls[c].kind = "send"
    /\ calls[c].pc = "returned"
    /\ calls[c].aiConfig.provider = "google-gemini"
    /\ calls[c].before.messages # <<>>
    /\ heap[calls[c].session].updatedAt > calls[c].before.updatedAt

\* C2: a drained openai/openrouter stream has yielded one user event, then
\* assistant events whose content never gets shorter, then one done event,
\* the last; the session's last message has the done event's content.
C2_StreamEventSequence ==
  \A c \in Clients :
    LET k == calls[c]
        ev == Events(k)
        n == Len(ev)
    IN (k.kind = "stream" /\ IsOpenAI(k.aiConfig) /\ k.pc = "finished") =>
         /\ n >= 2
         /\ IsEvent(ev[1], "user")
         /\ IsEvent(ev[n], "done")
         /\ \A i \in 2..(n - 1) : IsEvent(ev[i], "assistant")
         /\ \A i \in 2..(n - 2) : Len(ev[i].data.content) <= Len(ev[i + 1].data.content)
         /\ LastOf(heap[k.session].messages).content = ev[n].data.content

C2_Witness ==
  \E c \in Clients :
    /\ calls[c].kind = "stream"
    /\ calls[c].aiConfig.provider = "openrouter"
    /\ calls[c].pc = "finished"
    /\ Len(AssistantEvents(calls[c])) = 2
    /\ LastOf(Events(calls[c])).data.content = <<"a", "b", "c">>

\* C3: a drained stream under anthropic or google-gemini has yielded exactly
\* user, assistant, done, the last two with the same content.
C3_WrappedThreeEvents ==
  \A c \in Clients :
    LET k == calls[c]
        ev == Events(k)
    IN (k.kind = "stream" /\ ~IsOpenAI(k.aiConfig) /\ k.pc = "finished") =>
         /\ Len(ev) = 3
         /\ IsEvent(ev[1], "user")
         /\ IsEvent(ev[2], "assistant")
         /\ IsEvent(ev[3], "done")
         /\ ev[1].data = k.userMsg
         /\ ev[2].data.content = ev[3].data.content

C3_Witness ==
  \E c \in Clients :
    /\ calls[c].kind = "stream"
    /\ calls[c].aiConfig.provider = "anthropic"
    /\ calls[c].pc = "finished"
    /\ LastOf(Events(calls[c])).data.content = <<"ok">>

\* C4, as claimed: in one call the user append and the user event come before
\* every assistant event and the assistant append, and all of them before the
\* done event.
C4_UserBeforeAssistantBeforeDone ==
  \A c \in Clients :
    LET h == calls[c].hist
    IN \A i, j \in 1..Len(h) :
         /\ (h[i].type = "user" /\ h[j].type = "assistant") => i < j
         /\ (h[i].type # "done" /\ h[j].type = "done") => i < j

\* C4, amended: the user append comes first of all; the user event comes
\* before every assistant event; everything comes before the done event; on
\* the streaming path the user event also comes before the assistant append,
\* on the wrapping path both appends come before the user event.
C4_OrderPerPath ==
  \A c \in Clients :
    LET k == calls[c]
        h == k.hist
    IN /\ h # <<>> => IsAppend(h[1], "user")
       /\ \A i, j \in 1..Len(h) :
            /\ (i # 1 /\ IsAppend(h[i], "user")) => FALSE
            /\ (IsEvent(h[i], "user") /\ IsEvent(h[j], "assistant")) => i < j
            /\ (h[i].type # "done" /\ h[j].type = "done") => i < j
            /\ (Streaming(k) /\ IsEvent(h[i], "user") /\ IsAppend(h[j], "assistant"))
                 => i < j
            /\ (Wrapping(k) /\ IsAppendOp(h[i]) /\ IsEvent(h[j], "user")) => i < j

C4_Witness ==
  \E c \in Clients :
    /\ Wrapping(calls[c])
    /\ calls[c].pc = "finished"
    /\ IsAppend(calls[c].hist[2], "assistant")
    /\ IsEvent(calls[c].hist[3], "user")

\* C5, as claimed: no assistant message appended to a session or carried by a
\* done event is empty; when the stream's chunks carry no text at all the
\* message is the fallback text.
C5_NeverEmptyAssistant ==
  \A c \in Clients :
    LET k == calls[c]
        h == k.hist
    IN \A i \in 1..Len(h) :
         (IsAppend(h[i], "assistant") \/ IsEvent(h[i], "done")) =>
           /\ h[i].data.content # <<>>
           /\ k.texts = <<>> /\ k.kind = "stream" /\ ~k.inSend
                => h[i].data.content = Fallback

\* C6, as claimed: a call that failed leaves its session as it was right after
\* the user message was appended: that message is the last one, no assistant
\* message was appended, updatedAt is unchanged.
C6_FailureKeepsUserMessage ==
  \A c \in Clients :
    LET k == calls[c]
    IN k.pc = "failed" =>
         /\ k.session # 0
         /\ Appends(k) = <<Appended(k.session, k.userMsg)>>
         /\ heap[k.session].messages = Append(k.before.messages, k.userMsg)
         /\ heap[k.session].updatedAt = k.before.updatedAt

\* C7: a stream that fails after it has started to emit yields no done event
\* and appends no assistant message, whatever it has emitted.
C7_FailedStreamAppendsNothing ==
  \A c \in Clients :
    LET k == calls[c]
    IN (Streaming(k) /\ k.pc = "failed" /\ Events(k) # <<>>) =>
         /\ ~HasDone(k)
         /\ ~HasAssistantAppend(k)
         /\ heap[k.session].messages = Append(k.before.messages, k.userMsg)
         /\ heap[k.session].updatedAt = k.before.updatedAt

C7_Witness ==
  \E c \in Clients :
    /\ Streaming(calls[c])
    /\ calls[c].pc = "failed"
    /\ Len(AssistantEvents(calls[c])) = 2

\* C8, as claimed: for every provider, a stream the consumer dropped before
\* the done event has appended no assistant message.
C8_DroppedStreamAppendsNothing ==
  \A c \in Clients :
    LET k == calls[c]
    IN (k.kind = "stream" /\ k.pc = "abandoned" /\ ~HasDone(k)) =>
         ~HasAssistantAppend(k)

\* C8, amended: on the openai/openrouter path a stream dropped before the done
\* event has appended no assistant message; on the other providers' path the
\* assistant message is appended before the first event is delivered.
C8_DroppedStreamPerPath ==
  \A c \in Clients :
    LET k == calls[c]
    IN /\ (Streaming(k) /\ k.pc = "abandoned" /\ ~HasDone(k)) =>
            /\ ~HasAssistantAppend(k)
            /\ heap[k.session].messages = Append(k.before.messages, k.userMsg)
       /\ (Wrapping(k) /\ Events(k) # <<>>) =>
            /\ IsAppend(k.hist[2], "assistant")
            /\ heap[k.session].messages =
                 k.before.messages \o <<k.userMsg, k.assistantMsg>>

C8_Witness ==
  \E c \in Clients :
    /\ Streaming(calls[c])
    /\ calls[c].pc = "abandoned"
    /\ ~HasDone(calls[c])
    /\ Len(AssistantEvents(calls[c])) = 1

\* C9: the i-th assistant event of a stream carries the concatenation of the
\* first i non-empty deltas received; chunks without text yield no event.
C9_SnapshotsAccumulate ==
  \A c \in Clients :
    LET k == calls[c]
        ae == AssistantEvents(k)
        texts == k.texts
    IN (k.kind = "stream" /\ ~k.inSend) =>
         /\ Len(ae) = Len(texts)
         /\ \A i \in 1..Len(ae) : ae[i].data.content = Join(SubSeq(texts, 1, i))

C9_Witness ==
  \E c \in Clients :
    /\ Streaming(calls[c])
    /\ calls[c].texts = << <<"a">>, <<"b", "c">> >>
    /\ Len(AssistantEvents(calls[c])) = 2

\* C10: the assistant id of a stream is set before the stream is opened and
\* every assistant event of the call carries it.
C10_FixedAssistantId ==
  \A c \in Clients :
    LET k == calls[c]
        ae == AssistantEvents(k)
    IN (k.kind = "stream" /\ ~k.inSend) =>
         /\ k.pc \in {"open", "loop", "yAsst", "yDone"} => k.assistantId[1] = "assistant"
         /\ \A i \in 1..Len(ae) : ae[i].data.id = k.assistantId

C10_Witness ==
  \E c \in Clients :
    /\ Streaming(calls[c])
    /\ Len(AssistantEvents(calls[c])) = 2
    /\ now > calls[c].assistantId[2]

\* ------------------------------------------------- the session store
\* the registry that the i-th call of storeLog found
MapBefore(i) == IF i = 1 THEN <<>> ELSE storeLog[i - 1].map

\* the sessions of a registry that belong to a container
RefsOf(m, containerId) ==
  {m[j].ref : j \in {j \in 1..Len(m) : heap[m[j].ref].containerId = containerId}}

\* C11: of two consecutive getOrCreateChatSession calls for one container the
\* second returns the session object the first returned and leaves the
\* registry as the first left it.
C11_GetOrCreateIdempotent ==
  \A i \in 1..(Len(storeLog) - 1) :
    (/\ storeLog[i].op = "getOrCreate"
     /\ storeLog[i + 1].op = "getOrCreate"
     /\ storeLog[i + 1].containerId = storeLog[i].containerId) =>
      /\ storeLog[i + 1].ref = storeLog[i].ref
      /\ storeLog[i + 1].map = storeLog[i].map

C11_Witness ==
  \E i \in 1..(Len(storeLog) - 1) :
    /\ storeLog[i].op = "getOrCreate"
    /\ storeLog[i + 1].op = "getOrCreate"
    /\ storeLog[i + 1].containerId = storeLog[i].containerId
    /\ Len(storeLog[i].map) = Len(MapBefore(i)) + 1
    /\ Len(MapBefore(i)) > 0

\* C12, as claimed: every createChatSession call makes the registry one
\* session larger, registers the session it returns, and leaves every session
\* registered before retrievable by its id with getChatSession.
C12_CreateAlwaysRegisters ==
  \A i \in 1..Len(storeLog) :
    storeLog[i].op = "create" =>
      /\ Len(storeLog[i].map) = Len(MapBefore(i)) + 1
      /\ getChatSession(storeLog[i].map, heap[storeLog[i].ref].id) = storeLog[i].ref
      /\ \A j \in 1..Len(MapBefore(i)) :
           getChatSession(storeLog[i].map, MapBefore(i)[j].key) = MapBefore(i)[j].ref

\* C13: getOrCreateChatSession returns the earliest created of the registered
\* sessions of the container and leaves the registry alone; when the container
\* has no registered session it returns a new, empty session of the container
\* and appends it to the registry.
C13_GetOrCreateFirstMatch ==
  \A i \in 1..Len(storeLog) :
    LET e == storeLog[i]
        found == RefsOf(MapBefore(i), e.containerId)
    IN e.op = "getOrCreate" =>
         IF found # {}
           THEN /\ e.ref \in found
                /\ \A r \in found : e.ref <= r
                /\ e.map = MapBefore(i)
           ELSE /\ \A j \in 1..Len(MapBefore(i)) : MapBefore(i)[j].ref # e.ref
                /\ heap[e.ref].containerId = e.containerId
                /\ heap[e.ref].messages = <<>>
                /\ e.map = Append(MapBefore(i), [key |-> heap[e.ref].id, ref |-> e.ref])

C13_Witness ==
  \E i \in 1..Len(storeLog) :
    /\ storeLog[i].op = "getOrCreate"
    /\ i = 3
    /\ storeLog[1].op = "create"
    /\ storeLog[2].op = "create"
    /\ Cardinality(RefsOf(MapBefore(i), storeLog[i].containerId)) = 2

\* ------------------------------------------------- the normalizers
\* the plain text of the documents
PlainText(attachment) == IF attachment = Doc THEN <<"d">> ELSE <<"e">>

\* the text part of a document: its name in the label, then its plain text
IsDocumentPart(part, attachment) ==
  /\ part.type = "text"
  /\ part.text = <<"\n\n", "Document", attachment.name, "content:\n">> \o PlainText(attachment)

HasDocument(attachments) ==
  \E i \in 1..Len(attachments) : attachments[i].type = "document"

\* C15, as claimed: the output of every normalizer for a list with a document
\* starts with the primary text part, and its second part is the text part
\* of a document of the list.
C15_DocumentRightAfterText ==
  \A n \in norm.done :
    HasDocument(norm.attachments) =>
      /\ norm[n][1].type = "text"
      /\ norm[n][1].text = norm.message
      /\ \E i \in 1..Len(norm.attachments) :
           /\ norm.attachments[i].type = "document"
           /\ IsDocumentPart(norm[n][2], norm.attachments[i])

\* C15, amended: the output of every normalizer is the primary text part
\* followed by one part per attachment in the order of the list; the part of
\* a document is the text part with its name and its decoded content, which
\* comes right after the primary text when the document is the first
\* attachment.
C15_PartsInAttachmentOrder ==
  \A n \in norm.done :
    /\ Len(norm[n]) = 1 + Len(norm.attachments)
    /\ norm[n][1].type = "text"
    /\ norm[n][1].text = norm.message
    /\ \A i \in 1..Len(norm.attachments) :
         IF norm.attachments[i].type = "document"
           THEN IsDocumentPart(norm[n][i + 1], norm.attachments[i])
           ELSE /\ norm[n][i + 1].type # "text"
                /\ norm[n][i + 1].mimeType \in {"", norm.attachments[i].mimeType}

C15_Witness ==
  /\ norm.done = Normalizers
  /\ norm.attachments = <<Image, Doc>>
  /\ IsDocumentPart(norm.gemini[3], Doc)
  /\ IsDocumentPart(norm.openai[3], Doc)

\* ------------------------------------------------- concurrent calls
\* a sendMessage call between the append of its user message and the append
\* of its assistant message: it waits for the configuration, the context or
\* the provider
Waiting(k) ==
  k.kind = "send" /\ k.pc \in {"readCfg", "writeCfg", "cfg", "ctx", "provider"}

\* the index in its session at which a call has appended its user message
OwnIndex(k) == Len(k.before.messages) + 1

\* C14: a sendMessage call that waits at a suspension point does not hold
\* back a call of the other client for the same container; every call has
\* its user message at the index it appended it at, and a returned call has
\* its assistant message somewhere after it, not necessarily next to it.
C14_CallsInterleave ==
  \A c \in Clients :
    LET k == calls[c]
        msgs == heap[k.session].messages
    IN /\ (Waiting(k) /\ started < MaxCalls) =>
            \A d \in Clients \ {c} :
              calls[d].pc \in Ended => ENABLED sendMessage(d, "c1", Question(d), <<>>)
       /\ (k.kind = "send" /\ k.session # 0) => msgs[OwnIndex(k)] = k.userMsg
       /\ (k.kind = "send" /\ k.pc = "returned") =>
            \E j \in (OwnIndex(k) + 1)..Len(msgs) : msgs[j] = k.assistantMsg

C14_Witness ==
  \E c \in Clients, d \in Clients :
    /\ c # d
    /\ calls[c].pc = "returned"
    /\ calls[d].pc = "returned"
    /\ calls[c].session = calls[d].session
    /\ calls[c].assistantMsg # calls[d].assistantMsg
    /\ heap[calls[c].session].messages =
         <<calls[c].userMsg, calls[d].userMsg, calls[d].assistantMsg, calls[c].assistantMsg>>

\* a call that has built its Gemini request
Built(k) == k.request.contents # <<>>

\* C16, as claimed: in a Gemini request every entry but the last is a single
\* text part; the last, the newest user turn, has one part more than the
\* user message has attachments.
C16_OnlyNewestTurnNormalized ==
  \A c \in Clients :
    LET k == calls[c]
        contents == k.request.contents
    IN Built(k) =>
         /\ \A i \in 1..(Len(contents) - 1) :
              /\ Len(contents[i].parts) = 1
              /\ contents[i].parts[1].type = "text"
         /\ Len(LastOf(contents).parts) = 1 + Len(k.userMsg.attachments)

\* C16, amended: in a Gemini request the entries before the last stand for
\* the messages of the history: an assistant message and a user message
\* without attachments are a single text part, a user message with
\* attachments is its text part followed by one part per attachment; the
\* last entry is the newest user turn with its attachments.
C16_HistoryKeepsAttachments ==
  \A c \in Clients :
    LET k == calls[c]
        contents == k.request.contents
        history == AllButLast(k.request.messages)
    IN Built(k) =>
         /\ Len(contents) = Len(history) + 1
         /\ \A i \in 1..Len(history) :
              /\ contents[i].role = (IF history[i].role = "assistant" THEN "model" ELSE "user")
              /\ contents[i].parts[1].type = "text"
              /\ contents[i].parts[1].text = history[i].content
              /\ Len(contents[i].parts) = 1 + Len(history[i].attachments)
              /\ \A j \in 1..Len(history[i].attachments) :
                   (contents[i].parts[j + 1].type = "text")
                     = (history[i].attachments[j].type = "document")
         /\ LastOf(contents).role = "user"
         /\ LastOf(contents).parts[1].text = k.userMsg.content
         /\ Len(LastOf(contents).parts) = 1 + Len(k.userMsg.attachments)

C16_Witness ==
  \E c \in Clients :
    /\ Built(calls[c])
    /\ Len(calls[c].request.contents) = 3
    /\ Len(calls[c].request.contents[1].parts) = 3
    /\ calls[c].request.contents[2].role = "model"
    /\ calls[c].userMsg.attachments = <<>>

\* a sequence without its i-th element
Without(seq, i) == SubSeq(seq, 1, i - 1) \o SubSeq(seq, i + 1, Len(seq))

\* C17, as claimed: the contents of a Gemini request are the translation of
\* the session's messages without the user message this call has appended,
\* followed by the one entry built from that message.
C17_RequestLeavesOutOwnMessage ==
  \A c \in Clients :
    LET k == calls[c]
    IN Built(k) =>
         k.request.contents =
           toGeminiHistory(Without(k.request.messages, OwnIndex(k)))
             \o <<[role |-> "user",
                   parts |-> buildGeminiParts(k.userMsg.content, k.userMsg.attachments)]>>

\* ------------------------------------------------- the configuration
\* a field of { ...current, ...update } that is missing or blank
Blank(field) == field = <<>> \/ Trim(field[1]) = <<>>

\* the step of an updateAiConfig call from `await getAiConfig()` on
Validates(c) ==
  calls[c].kind = "update" /\ calls[c].pc = "cfg" /\ calls'[c].pc # "cfg"

\* C18, as claimed: an update whose merged fields have a missing or blank
\* apiKey or model is rejected, and the step that rejects it leaves the cached
\* configuration and the configuration file as they are.
C18_RequiredFieldsRejected ==
  [][\A c \in Clients :
       LET raw == Spread(calls[c].aiConfig, calls[c].update)
       IN (Validates(c) /\ (Blank(raw.apiKey) \/ Blank(raw.model))) =>
            /\ calls'[c].pc = "failed"
            /\ calls'[c].error # ""
            /\ cachedConfig' = cachedConfig
            /\ configFile' = configFile]_vars

InRange(t) == ~t.nan /\ 0 <= t.v /\ t.v <= MaxTemperature

\* C19, as claimed: an update that is not rejected has a temperature that is
\* a number from 0 to 2, and so has the active configuration once updates
\* have been called.
C19_TemperatureInRange ==
  /\ \A c \in Clients :
       (calls[c].kind = "update" /\ calls[c].pc \in {"writeUpd", "returned"}) =>
         InRange(calls[c].merged.temperature)
  /\ (updates > 0 /\ cachedConfig # <<>>) => InRange(cachedConfig[1].temperature)

\* C20, as claimed: a getAiConfig call that starts after an update has
\* returned, with no update running or started since, returns the
\* configuration that update returned.
C20_GetReturnsLastUpdate ==
  \A c \in Clients :
    LET k == calls[c]
    IN (k.kind = "get" /\ k.pc = "returned" /\ k.seen # <<>>
        /\ k.seen[1].updates = updates) =>
         k.aiConfig = k.seen[1].config

\* ------------------------------------------------- the stream's ids
\* C23, as claimed: once an openai/openrouter stream has yielded its done
\* event, the message of that event, which is the message appended to the
\* session, has the id of every assistant snapshot the call has yielded.
C23_DoneIdIsSnapshotId ==
  \A c \in Clients :
    LET k == calls[c]
        ae == AssistantEvents(k)
    IN (Streaming(k) /\ HasDone(k)) =>
         /\ LastOf(k.hist).data = k.assistantMsg
         /\ LastOf(heap[k.session].messages) = k.assistantMsg
         /\ \A i \in 1..Len(ae) : ae[i].data.id = k.assistantMsg.id

\* ------------------------------------------------- the shape of a history
Roles(messages) == [i \in 1..Len(messages) |-> messages[i].role]

\* C24: with the calls on a session made one after the other, a history
\* that is not empty starts with a user message, and every assistant message
\* comes right after a user message.
C24_AssistantFollowsUser ==
  \A ref \in 1..Len(heap) :
    LET roles == Roles(heap[ref].messages)
    IN /\ roles # <<>> => roles[1] = "user"
       /\ \A i \in 1..Len(roles) :
            roles[i] = "assistant" => (i > 1 /\ roles[i - 1] = "user")

\* a failed call has left its user message unanswered and the next call has
\* been answered
C24_Witness ==
  \E ref \in 1..Len(heap) :
    /\ Roles(heap[ref].messages) = <<"user", "user", "assistant">>
    /\ calls[Caller].pc \in {"returned", "finished"}

\* ------------------------------------------------- concurrent first calls
\* the entries of the registry that hold a session of the container
EntriesOf(containerId) ==
  {i \in 1..Len(chatSessions) : heap[chatSessions[i].ref].containerId = containerId}

\* C21: while createChatSession has not been called the registry holds at
\* most one session for each container.
C21_OneSessionPerContainer ==
  created = 0 => \A cid \in Containers : Cardinality(EntriesOf(cid)) <= 1

\* a sendMessage call has created the session of a container while a
\* sendMessageStream call for the same container was waiting for the
\* configuration; both are running on that session
C21_Witness ==
  \E c \in Clients, d \in Clients :
    /\ calls[c].kind = "send" /\ calls[d].kind = "stream"
    /\ calls[c].pc \notin Ended /\ calls[d].pc \notin Ended
    /\ calls[c].containerId = calls[d].containerId
    /\ calls[c].session # 0 /\ calls[d].session = calls[c].session
    /\ calls[c].before.messages = <<>>
    /\ calls[d].before.messages = <<calls[c].userMsg>>
    /\ created = 0

\* ------------------------------------------------- what a call changes
\* the first session of a container in the order of the registry, 0 when the
\* container has none
FirstRegistered(h, m, containerId) ==
  LET hits == {i \in 1..Len(m) : h[m[i].ref].containerId = containerId}
  IN IF hits = {} THEN 0 ELSE m[CHOOSE i \in hits : \A j \in hits : j >= i].ref

\* the step in which a call looks up its session
Resolves(c) ==
  /\ calls'[c].session # 0
  /\ calls'[c].pc # calls[c].pc
  /\ calls[c].session = 0 \/ calls[c].pc \in Ended

\* C22: the session a call works on is the one that is first in the registry
\* for its container when the call looks it up, and a step of the call that
\* changes the messages or updatedAt of a session changes those of that
\* session only; no other step changes them.
C22_CallChangesOnlyItsSession ==
  [][/\ \A c \in Clients :
          Resolves(c) =>
            calls'[c].session = FirstRegistered(heap', chatSessions', calls'[c].containerId)
     /\ \A ref \in 1..Len(heap) :
          (heap'[ref].messages # heap[ref].messages
             \/ heap'[ref].updatedAt # heap[ref].updatedAt) =>
            \E c \in Clients :
              /\ calls'[c] # calls[c]
              /\ calls'[c].kind \in {"send", "stream"}
              /\ calls'[c].session = ref
              /\ heap[ref].containerId = calls'[c].containerId]_vars

\* a call has been answered on its session while the registry holds a
\* session registered later for the same container and a session of the
\* other container, both as createChatSession made them
C22_Witness ==
  \E c \in Clients, later \in 1..Len(heap), other \in 1..Len(heap) :
    /\ calls[c].pc \in {"returned", "finished"}
    /\ Len(heap[calls[c].session].messages) = 2
    /\ later > calls[c].session
    /\ heap[later].containerId = calls[c].containerId
    /\ heap[other].containerId # calls[c].containerId
    /\ \E i \in 1..Len(chatSessions) : chatSessions[i].ref = later
    /\ \E i \in 1..Len(chatSessions) : chatSessions[i].ref = other
    /\ heap[later].messages = <<>> /\ heap[other].messages = <<>>

====
